---------------------------- MODULE Spec2Model ----------------------------
(***************************************************************************)
(* A model of misskey-reaction-cli (the streaming version of main.go):     *)
(* runApp validates the configuration, streamNotes dials the streaming     *)
(* API, subscribes to homeTimeline and reads frames in a loop; every       *)
(* channel/note frame is handed to the callback of runApp, which matches   *)
(* the text, sleeps 5..8 seconds and calls createReaction.                 *)
(*                                                                         *)
(* The program has ONE goroutine: the callback runs inside the read loop.  *)
(* pc is the position of that goroutine.  The streaming server and the     *)
(* HTTP API are the environment.                                           *)
(*                                                                         *)
(* Strings whose contents the code inspects (note text, match text, URL)   *)
(* are sequences of symbols; the others are TLA+ strings.                  *)
(***************************************************************************)
EXTENDS Naturals, Sequences, FiniteSets

VARIABLES
  config,     \* *Config as returned by loadConfig, then mutated by runApp
  pc,         \* position of the only goroutine
  conn,       \* "none" | "open" | "closed": the websocket connection
  dialed,     \* the URLs Dial was called with, in order
  sent,       \* the messages WriteJSON was called with, and whether it worked
  written,    \* the frames the server has written, in order
  wire,       \* frames the server has written and the client has not read
  received,   \* the frames ReadMessage has returned, in order
  events,     \* the invocations of noteCallback, in order
  delay,      \* the delay chosen for the current dispatch, in seconds
  elapsed,    \* seconds slept so far in the current dispatch
  calls,      \* the invocations of createReaction, in order
  stdout,     \* lines written to stdout
  stderr,     \* lines written to stderr (os.Stderr and the stderr writer)
  result      \* what runApp returned: "running", "nil" or an error chain

vars == <<config, pc, conn, dialed, sent, written, wire, received, events,
          delay, elapsed, calls, stdout, stderr, result>>

---------------------------------------------------------------------------
(* Bounds of the model *)

\* how many frames the server writes in one run
MaxFrames == 2
\* the longest note text and match text of a direct call of checkTextMatch
MaxLen == 3
\* the longest message and code of an error body
MaxMsgLen == 2
\* the most redirects an answer to a direct call of createReaction has
MaxHops == 1

---------------------------------------------------------------------------
(* Program constants *)

\* rand.Intn(4)+5: the least delay, and the number of values of rand.Intn(4)
DelayBase == 5
DelaySpan == 4
\* http.StatusNoContent
StatusNoContent == 204
\* the default reaction
DefaultEmoji == "thumbsup"

---------------------------------------------------------------------------
(* Sequences of symbols: what package strings computes *)

\* strings.HasPrefix
HasPrefix(s, prefix) ==
  Len(prefix) <= Len(s) /\ SubSeq(s, 1, Len(prefix)) = prefix

\* strings.HasSuffix
HasSuffix(s, suffix) ==
  Len(suffix) <= Len(s) /\ SubSeq(s, Len(s) - Len(suffix) + 1, Len(s)) = suffix

\* Index that does not look at the empty place after the last symbol
Index_NoEmptyAtEnd(s, substr) ==
  LET hits == { i \in 1..Len(s) :
                  i + Len(substr) - 1 <= Len(s)
                  /\ SubSeq(s, i, i + Len(substr) - 1) = substr }
  IN  IF hits = {} THEN 0 ELSE CHOOSE i \in hits : \A j \in hits : i <= j

\* strings.Index: the first position (from 1) where substr occurs in s, 0 if none
Index(s, substr) ==
  LET hits == { i \in 1..(Len(s) + 1) :
                  i + Len(substr) - 1 <= Len(s)
                  /\ SubSeq(s, i, i + Len(substr) - 1) = substr }
  IN  IF hits = {} THEN 0 ELSE CHOOSE i \in hits : \A j \in hits : i <= j

\* Contains that does not see an occurrence at the start
Contains_NotAtStart(s, substr) == Index(s, substr) > 1

\* strings.Contains
Contains(s, substr) == Index(s, substr) > 0

\* ReplaceFirst that replaces every occurrence
RECURSIVE ReplaceFirst_All(_, _, _)
ReplaceFirst_All(s, old, new) ==
  LET i == Index(s, old)
  IN  IF i = 0 THEN s
      ELSE SubSeq(s, 1, i - 1) \o new
           \o ReplaceFirst_All(SubSeq(s, i + Len(old), Len(s)), old, new)

\* strings.Replace(s, old, new, 1) for a non-empty old
ReplaceFirst(s, old, new) ==
  LET i == Index(s, old)
  IN  IF i = 0 THEN s
      ELSE SubSeq(s, 1, i - 1) \o new \o SubSeq(s, i + Len(old), Len(s))

---------------------------------------------------------------------------
(* Errors: fmt.Errorf("...: %w", err) puts a message before the chain *)

Wrap(msg, err) == <<msg>> \o err

\* the sequences over S of length at most n
SeqsUpTo(S, n) == UNION { [1..k -> S] : k \in 0..n }

\* the decimal digits
Digit == <<"0", "1", "2", "3", "4", "5", "6", "7", "8", "9">>

\* what the verb %d prints for n >= 0
RECURSIVE Itoa(_)
Itoa(n) ==
  IF n < 10 THEN <<Digit[n + 1]>>
  ELSE Itoa(n \div 10) \o <<Digit[(n % 10) + 1]>>

\* the flags between % and the verb: of "#0+- " only the space occurs in
\* the formats of the model
RECURSIVE SkipFlags(_)
SkipFlags(format) ==
  IF format # <<>> /\ Head(format) = " " THEN SkipFlags(Tail(format))
  ELSE format

\* fmt.Errorf(format) with no operands, a string being the sequence of its
\* characters: %% prints %, any other verb prints %!verb(MISSING), and a %
\* with no verb after it prints %!(NOVERB)
RECURSIVE Errorf(_)
Errorf(format) ==
  IF format = <<>> THEN <<>>
  ELSE IF Head(format) # "%" THEN <<Head(format)>> \o Errorf(Tail(format))
  ELSE LET rest == SkipFlags(Tail(format)) IN
       IF rest = <<>> THEN <<"%!(NOVERB)">>
       ELSE IF Head(rest) = "%" THEN <<"%">> \o Errorf(Tail(rest))
       ELSE <<"%!", Head(rest), "(MISSING)">> \o Errorf(Tail(rest))

---------------------------------------------------------------------------
(* The configuration *)

\* misskey.url values of the model: absent, an https origin, and an http URL
\* with a space in its host, which url.Parse refuses
Urls ==
  { <<>>,
    <<"h", "t", "t", "p", "s", ":", "/", "/", "m">>,
    <<"h", "t", "t", "p", ":", "/", "/", "m", " ", "x">> }
\* misskey.token
Tokens == { <<>>, <<"tok">> }
\* reaction.emoji
Emojis == { "", ":e:" }
\* reaction.match_text
MatchTexts == { <<>>, <<"a">> }
\* reaction.match_type
MatchTypes == { "prefix", "suffix", "contains", "", "bogus" }

\* type Config
Config ==
  [ URL : Urls, Token : Tokens, Emoji : Emojis,
    MatchText : MatchTexts, MatchType : MatchTypes ]

---------------------------------------------------------------------------
(* Frames and their decoding *)

\* a frame on the wire: raw names the payload; json says whether
\* json.Unmarshal into streamNoteEvent accepts it, and the fields are what
\* it then fills in
Frame(raw, json, type, btype, id, text) ==
  [ raw |-> raw, json |-> json, Type |-> type, BodyType |-> btype,
    ID |-> id, Text |-> text ]

\* the frames the server of the model may write
Frames ==
  { Frame("garbage", FALSE, "", "", "", <<>>),
    Frame("note1", TRUE, "channel", "note", "n1", <<"a", "b">>),
    Frame("note2", TRUE, "channel", "note", "n2", <<"b", "a">>),
    Frame("followed", TRUE, "channel", "followed", "u1", <<>>),
    Frame("connected", TRUE, "connected", "note", "n3", <<"a">>) }

\* type streamNoteEvent, zero value
ZeroEvent == [ Type |-> "", BodyType |-> "", ID |-> "", Text |-> <<>> ]

\* json.Unmarshal(message, &event)
Unmarshal(message) ==
  IF message.json
  THEN [ err |-> FALSE,
         event |-> [ Type |-> message.Type, BodyType |-> message.BodyType,
                     ID |-> message.ID, Text |-> message.Text ] ]
  ELSE [ err |-> TRUE, event |-> ZeroEvent ]

\* IsNoteEvent that forgets the inner type
IsNoteEvent_OuterOnly(event) == event.Type = "channel"

\* event.Type == "channel" && event.Body.Type == "note"
IsNoteEvent(event) == event.Type = "channel" /\ event.BodyType = "note"

---------------------------------------------------------------------------
(* checkTextMatch *)

\* checkTextMatch with the two ends taken for each other
checkTextMatch_SwappedEnds(noteText, cfg) ==
  CASE cfg.MatchType = "prefix" -> HasSuffix(noteText, cfg.MatchText)
    [] cfg.MatchType = "suffix" -> HasPrefix(noteText, cfg.MatchText)
    [] cfg.MatchType \in {"contains", ""} -> Contains(noteText, cfg.MatchText)
    [] OTHER -> FALSE

\* checkTextMatch that falls back to contains for an unknown mode
checkTextMatch_FallbackContains(noteText, cfg) ==
  CASE cfg.MatchType = "prefix" -> HasPrefix(noteText, cfg.MatchText)
    [] cfg.MatchType = "suffix" -> HasSuffix(noteText, cfg.MatchText)
    [] OTHER -> Contains(noteText, cfg.MatchText)

\* switch config.Reaction.MatchType
checkTextMatch(noteText, cfg) ==
  CASE cfg.MatchType = "prefix" -> HasPrefix(noteText, cfg.MatchText)
    [] cfg.MatchType = "suffix" -> HasSuffix(noteText, cfg.MatchText)
    [] cfg.MatchType \in {"contains", ""} -> Contains(noteText, cfg.MatchText)
    [] OTHER -> FALSE

---------------------------------------------------------------------------
(* createReaction *)

\* no error
Nil == <<>>

\* no answer yet
NoResponse ==
  [ net |-> "none", hops |-> <<>>, status |-> 0, body |-> [ kind |-> "none" ] ]

\* what the network and the API may answer to client.Do: hops are the
\* statuses of the redirects the client follows before the answer
HttpOutcomes ==
  { [ net |-> "fail", hops |-> <<>>, status |-> 0,
      body |-> [ kind |-> "none" ] ],
    [ net |-> "ok", hops |-> <<>>, status |-> 204,
      body |-> [ kind |-> "none" ] ],
    [ net |-> "ok", hops |-> <<>>, status |-> 400,
      body |-> [ kind |-> "error", message |-> <<"Note not found.">>,
                 code |-> <<"NOTE_NOT_FOUND">> ] ],
    [ net |-> "ok", hops |-> <<>>, status |-> 200,
      body |-> [ kind |-> "garbage", raw |-> <<"<", "h", ">">> ] ] }

\* http.NewRequest refuses a URL that url.Parse refuses (a space in the host)
UrlMalformed(url) == \E i \in DOMAIN url : url[i] = " "

\* the request createReaction builds
ReactionRequest(misskeyURL, noteID, reaction, token) ==
  [ method |-> "POST",
    url |-> misskeyURL \o <<"/api/notes/reactions/create">>,
    contentType |-> "application/json",
    authorization |-> <<"Bearer ">> \o token,
    body |-> [ noteId |-> noteID, reaction |-> reaction ] ]

\* the texts around %s and %d in the three formats of errMsg
ApiErrorText == <<"A", "P", "I", " ", "e", "r", "r", "o", "r", ":", " ">>
CodeText == <<" ", "(", "C", "o", "d", "e", ":", " ">>
StatusText == <<" ", "(", "S", "t", "a", "t", "u", "s", ":", " ">>

\* the error of json.Unmarshal for a body that is no JSON value
UnmarshalError(raw) ==
  IF raw = <<>> THEN "unexpected end of JSON input"
  ELSE "invalid character looking for beginning of value"

\* StatusError that reports a body it cannot parse in the form of an API
\* error without message
StatusError_GarbageAsApiError(http) ==
  CASE http.body.kind = "unreadable" ->
         <<"unexpected status code: ">> \o Itoa(http.status)
         \o <<", failed to read response body: ", "read error">>
    [] http.body.kind = "error" ->
         LET errMsg ==
               ApiErrorText \o http.body.message
               \o (IF http.body.code # <<>>
                   THEN CodeText \o http.body.code \o <<")">>
                   ELSE <<>>)
               \o StatusText \o Itoa(http.status) \o <<")">>
         IN  Errorf(errMsg)
    [] http.body.kind = "garbage" ->
         Errorf(ApiErrorText \o StatusText \o Itoa(http.status) \o <<")">>)

\* the error of a response whose status is not 204.  A body is unreadable,
\* or garbage (json.Unmarshal refuses its raw text), or an error object with
\* its message and code; errMsg is handed to fmt.Errorf as the format.
StatusError(http) ==
  CASE http.body.kind = "unreadable" ->
         <<"unexpected status code: ">> \o Itoa(http.status)
         \o <<", failed to read response body: ", "read error">>
    [] http.body.kind = "error" ->
         LET errMsg ==
               ApiErrorText \o http.body.message
               \o (IF http.body.code # <<>>
                   THEN CodeText \o http.body.code \o <<")">>
                   ELSE <<>>)
               \o StatusText \o Itoa(http.status) \o <<")">>
         IN  Errorf(errMsg)
    [] http.body.kind = "garbage" ->
         <<"unexpected status code: ">> \o Itoa(http.status)
         \o <<", failed to unmarshal error response: ",
              UnmarshalError(http.body.raw), ", body: ">>
         \o http.body.raw

\* the request http.Client sends after a redirect with this status to a
\* Location on the same host: 307 and 308 repeat the request, the other
\* statuses turn it into a GET without body
Redirected(req, status) ==
  IF status \in {307, 308}
  THEN [ req EXCEPT !.url = <<"Location">> ]
  ELSE [ req EXCEPT !.method = "GET", !.url = <<"Location">>,
                    !.contentType = "", !.body = <<>> ]

\* the requests client.Do sends after req while it follows hops
RECURSIVE Follow(_, _)
Follow(req, hops) ==
  IF hops = <<>> THEN <<>>
  ELSE LET next == Redirected(req, Head(hops))
       IN  <<next>> \o Follow(next, Tail(hops))

\* createReaction that takes every 2xx status for a success
createReaction_Any2xx(misskeyURL, noteID, reaction, token, http) ==
  LET req == ReactionRequest(misskeyURL, noteID, reaction, token)
      reqs == <<req>> \o Follow(req, http.hops)
  IN
  IF UrlMalformed(req.url)
  THEN [ requests |-> <<>>,
         err |-> Wrap("failed to create request: ", <<"invalid URL">>) ]
  ELSE IF http.net = "fail"
  THEN [ requests |-> reqs,
         err |-> Wrap("failed to send request: ", <<"network error">>) ]
  ELSE IF http.status \notin 200..299
  THEN [ requests |-> reqs, err |-> StatusError(http) ]
  ELSE [ requests |-> reqs, err |-> Nil ]

\* createReaction that sends the request once more when the network failed
createReaction_ResendOnFailure(misskeyURL, noteID, reaction, token, http) ==
  LET req == ReactionRequest(misskeyURL, noteID, reaction, token)
      reqs == <<req>> \o Follow(req, http.hops)
  IN
  IF UrlMalformed(req.url)
  THEN [ requests |-> <<>>,
         err |-> Wrap("failed to create request: ", <<"invalid URL">>) ]
  ELSE IF http.net = "fail"
  THEN [ requests |-> reqs \o <<req>>,
         err |-> Wrap("failed to send request: ", <<"network error">>) ]
  ELSE IF http.status # StatusNoContent
  THEN [ requests |-> reqs, err |-> StatusError(http) ]
  ELSE [ requests |-> reqs, err |-> Nil ]

\* createReaction that reports a failure of the network as an API error
createReaction_NetAsApiError(misskeyURL, noteID, reaction, token, http) ==
  LET req == ReactionRequest(misskeyURL, noteID, reaction, token)
      reqs == <<req>> \o Follow(req, http.hops)
  IN
  IF UrlMalformed(req.url)
  THEN [ requests |-> <<>>,
         err |-> Wrap("failed to create request: ", <<"invalid URL">>) ]
  ELSE IF http.net = "fail"
  THEN [ requests |-> reqs,
         err |-> ApiErrorText \o <<"network error">> ]
  ELSE IF http.status # StatusNoContent
  THEN [ requests |-> reqs, err |-> StatusError(http) ]
  ELSE [ requests |-> reqs, err |-> Nil ]

\* createReaction: the requests that leave the process and the error it
\* returns, when the network and the API answer http
createReaction(misskeyURL, noteID, reaction, token, http) ==
  LET req == ReactionRequest(misskeyURL, noteID, reaction, token)
      reqs == <<req>> \o Follow(req, http.hops)
  IN
  IF UrlMalformed(req.url)
  THEN [ requests |-> <<>>,
         err |-> Wrap("failed to create request: ", <<"invalid URL">>) ]
  ELSE IF http.net = "fail"
  THEN [ requests |-> reqs,
         err |-> Wrap("failed to send request: ", <<"network error">>) ]
  ELSE IF http.status # StatusNoContent
  THEN [ requests |-> reqs, err |-> StatusError(http) ]
  ELSE [ requests |-> reqs, err |-> Nil ]

---------------------------------------------------------------------------
(* streamNotes and runApp *)

\* the URL of the streaming API that runApp builds
WsURL(cfg) ==
  ReplaceFirst(cfg.URL, <<"h", "t", "t", "p">>, <<"w", "s">>)
  \o <<"/streaming?i=">> \o cfg.Token

\* the subscribe message of streamNotes
ConnectMsg(token) ==
  [ type |-> "connect",
    body |-> [ channel |-> "homeTimeline", id |-> "main-channel-id",
               i |-> token ] ]

\* runApp returns err
Return(err) == [ done |-> TRUE, err |-> err ]

\* streamNotes returns err: conn.Close() is deferred, and runApp wraps the
\* error and returns it
StreamFailed(err) ==
  /\ pc' = "done"
  /\ result' = Return(Wrap("stream: ", err))

\* the frame the loop is working on
message == received[Len(received)]

\* the arguments of the running callback
note == events[Len(events)]

Init ==
  /\ config \in Config
  /\ pc = "start"
  /\ conn = "none"
  /\ dialed = <<>>
  /\ sent = <<>>
  /\ written = <<>>
  /\ wire = <<>>
  /\ received = <<>>
  /\ events = <<>>
  /\ delay = 0
  /\ elapsed = 0
  /\ calls = <<>>
  /\ stdout = <<>>
  /\ stderr = <<>>
  /\ result = [ done |-> FALSE, err |-> Nil ]

\* Validate without the check of match_text
Validate_NoMatchTextCheck ==
  /\ pc = "start"
  /\ IF config.URL = <<>>
     THEN /\ pc' = "done"
          /\ result' = Return(<<"no URL">>)
          /\ UNCHANGED <<config, stdout>>
     ELSE IF config.Token = <<>>
     THEN /\ pc' = "done"
          /\ result' = Return(<<"no token">>)
          /\ UNCHANGED <<config, stdout>>
     ELSE /\ config' = IF config.Emoji = ""
                       THEN [config EXCEPT !.Emoji = DefaultEmoji]
                       ELSE config
          /\ stdout' = Append(stdout, <<"connecting", WsURL(config')>>)
          /\ pc' = "dial"
          /\ UNCHANGED result
  /\ UNCHANGED <<conn, dialed, sent, written, wire, received, events, delay,
                 elapsed, calls, stderr>>

\* Validate that leaves an empty emoji empty
Validate_NoEmojiDefault ==
  /\ pc = "start"
  /\ IF config.URL = <<>>
     THEN /\ pc' = "done"
          /\ result' = Return(<<"no URL">>)
          /\ UNCHANGED <<config, stdout>>
     ELSE IF config.Token = <<>>
     THEN /\ pc' = "done"
          /\ result' = Return(<<"no token">>)
          /\ UNCHANGED <<config, stdout>>
     ELSE IF config.MatchText = <<>>
     THEN /\ pc' = "done"
          /\ result' = Return(<<"no match_text">>)
          /\ UNCHANGED <<config, stdout>>
     ELSE /\ config' = config
          /\ stdout' = Append(stdout, <<"connecting", WsURL(config')>>)
          /\ pc' = "dial"
          /\ UNCHANGED result
  /\ UNCHANGED <<conn, dialed, sent, written, wire, received, events, delay,
                 elapsed, calls, stderr>>

\* runApp, from the validation to the call of streamNotes
Validate ==
  /\ pc = "start"
  /\ IF config.URL = <<>>
     THEN /\ pc' = "done"
          /\ result' = Return(<<"no URL">>)
          /\ UNCHANGED <<config, stdout>>
     ELSE IF config.Token = <<>>
     THEN /\ pc' = "done"
          /\ result' = Return(<<"no token">>)
          /\ UNCHANGED <<config, stdout>>
     ELSE IF config.MatchText = <<>>
     THEN /\ pc' = "done"
          /\ result' = Return(<<"no match_text">>)
          /\ UNCHANGED <<config, stdout>>
     ELSE /\ config' = IF config.Emoji = ""
                       THEN [config EXCEPT !.Emoji = DefaultEmoji]
                       ELSE config
          /\ stdout' = Append(stdout, <<"connecting", WsURL(config')>>)
          /\ pc' = "dial"
          /\ UNCHANGED result
  /\ UNCHANGED <<conn, dialed, sent, written, wire, received, events, delay, elapsed,
                 calls, stderr>>

\* websocket.DefaultDialer.Dial succeeds
DialOk ==
  /\ pc = "dial"
  /\ ~UrlMalformed(WsURL(config))
  /\ dialed' = Append(dialed, WsURL(config))
  /\ conn' = "open"
  /\ pc' = "subscribe"
  /\ UNCHANGED <<config, sent, written, wire, received, events, delay, elapsed, calls,
                 stdout, stderr, result>>

\* DialFail that dials again instead of returning
DialFail_Retry ==
  /\ pc = "dial"
  /\ Len(dialed) < 2
  /\ dialed' = Append(dialed, WsURL(config))
  /\ UNCHANGED <<config, pc, conn, sent, written, wire, received, events,
                 delay, elapsed, calls, stdout, stderr, result>>

\* websocket.DefaultDialer.Dial fails
DialFail ==
  /\ pc = "dial"
  /\ dialed' = Append(dialed, WsURL(config))
  /\ StreamFailed(Wrap("WebSocket dial failed: ", <<"dial error">>))
  /\ UNCHANGED <<config, conn, sent, written, wire, received, events, delay, elapsed,
                 calls, stdout, stderr>>

\* conn.WriteJSON(connectMsg) succeeds
SubscribeOk ==
  /\ pc = "subscribe"
  /\ sent' = Append(sent, [ msg |-> ConnectMsg(config.Token), ok |-> TRUE ])
  /\ pc' = "read"
  /\ UNCHANGED <<config, conn, dialed, written, wire, received, events, delay, elapsed,
                 calls, stdout, stderr, result>>

\* SubscribeFail whose error is dropped: the loop starts reading
SubscribeFail_Ignored ==
  /\ pc = "subscribe"
  /\ sent' = Append(sent, [ msg |-> ConnectMsg(config.Token), ok |-> FALSE ])
  /\ pc' = "read"
  /\ UNCHANGED <<config, conn, dialed, written, wire, received, events,
                 delay, elapsed, calls, stdout, stderr, result>>

\* conn.WriteJSON(connectMsg) fails
SubscribeFail ==
  /\ pc = "subscribe"
  /\ sent' = Append(sent, [ msg |-> ConnectMsg(config.Token), ok |-> FALSE ])
  /\ conn' = "closed"
  /\ StreamFailed(Wrap("WebSocket send failed: ", <<"write error">>))
  /\ UNCHANGED <<config, dialed, written, wire, received, events, delay, elapsed,
                 calls, stdout, stderr>>

\* ReadOk that hands out the newest buffered frame instead of the oldest
ReadOk_Newest ==
  /\ pc = "read"
  /\ wire # <<>>
  /\ received' = Append(received, wire[Len(wire)])
  /\ wire' = SubSeq(wire, 1, Len(wire) - 1)
  /\ pc' = "decode"
  /\ UNCHANGED <<config, conn, dialed, sent, written, events, delay, elapsed,
                 calls, stdout, stderr, result>>

\* conn.ReadMessage returns the next frame
ReadOk ==
  /\ pc = "read"
  /\ wire # <<>>
  /\ received' = Append(received, Head(wire))
  /\ wire' = Tail(wire)
  /\ pc' = "decode"
  /\ UNCHANGED <<config, conn, dialed, sent, written, events, delay, elapsed, calls,
                 stdout, stderr, result>>

\* ReadFail that reconnects instead of returning
ReadFail_Reconnect ==
  /\ pc = "read"
  /\ Len(dialed) < 2
  /\ conn' = "closed"
  /\ pc' = "dial"
  /\ UNCHANGED <<config, dialed, sent, written, wire, received, events,
                 delay, elapsed, calls, stdout, stderr, result>>

\* ReadFail that takes the end of the stream for a clean end
ReadFail_CleanClose ==
  /\ pc = "read"
  /\ conn' = "closed"
  /\ pc' = "done"
  /\ result' = Return(Nil)
  /\ UNCHANGED <<config, dialed, sent, written, wire, received, events, delay,
                 elapsed, calls, stdout, stderr>>

\* conn.ReadMessage fails: the connection dropped, or the server closed it
ReadFail ==
  /\ pc = "read"
  /\ conn' = "closed"
  /\ StreamFailed(Wrap("WebSocket read failed: ", <<"read error">>))
  /\ UNCHANGED <<config, dialed, sent, written, wire, received, events, delay,
                 elapsed, calls, stdout, stderr>>

\* Decode that returns the parse error instead of logging it
Decode_AbortOnParseError ==
  /\ pc = "decode"
  /\ LET u == Unmarshal(message) IN
     IF u.err
     THEN /\ conn' = "closed"
          /\ StreamFailed(Wrap("WebSocket parse failed: ", <<"syntax error">>))
          /\ UNCHANGED <<events, stderr>>
     ELSE IF IsNoteEvent(u.event)
     THEN /\ events' = Append(events, [ frame |-> Len(received),
                                        noteID |-> u.event.ID,
                                        noteText |-> u.event.Text ])
          /\ pc' = "callback"
          /\ UNCHANGED <<conn, stderr, result>>
     ELSE /\ pc' = "read"
          /\ UNCHANGED <<conn, events, stderr, result>>
  /\ UNCHANGED <<config, dialed, sent, written, wire, received, delay,
                 elapsed, calls, stdout>>

\* the body of the loop after ReadMessage: decode the frame, and hand a
\* channel/note event to the callback
Decode ==
  /\ pc = "decode"
  /\ LET u == Unmarshal(message) IN
     IF u.err
     THEN /\ stderr' = Append(stderr, [ kind |-> "parse", raw |-> message.raw,
                                         frame |-> Len(received) ])
          /\ pc' = "read"
          /\ UNCHANGED events
     ELSE IF IsNoteEvent(u.event)
     THEN /\ events' = Append(events, [ frame |-> Len(received),
                                        noteID |-> u.event.ID,
                                        noteText |-> u.event.Text ])
          /\ pc' = "callback"
          /\ UNCHANGED stderr
     ELSE /\ pc' = "read"
          /\ UNCHANGED <<events, stderr>>
  /\ UNCHANGED <<config, conn, dialed, sent, written, wire, received, delay, elapsed,
                 calls, stdout, result>>

\* Callback without the check of the text: every note is dispatched
Callback_NoMatchCheck ==
  /\ pc = "callback"
  /\ \E n \in 0..(DelaySpan - 1) : delay' = n + DelayBase
  /\ elapsed' = 0
  /\ pc' = "sleep"
  /\ UNCHANGED <<config, conn, dialed, sent, written, wire, received, events,
                 calls, stdout, stderr, result>>

\* Callback that skips a note whose ID already got a reaction
Callback_Dedup ==
  /\ pc = "callback"
  /\ IF \/ ~checkTextMatch(note.noteText, config)
        \/ \E i \in DOMAIN calls : calls[i].noteID = note.noteID
     THEN /\ pc' = "read"
          /\ UNCHANGED <<delay, elapsed>>
     ELSE /\ \E n \in 0..(DelaySpan - 1) : delay' = n + DelayBase
          /\ elapsed' = 0
          /\ pc' = "sleep"
  /\ UNCHANGED <<config, conn, dialed, sent, written, wire, received, events,
                 calls, stdout, stderr, result>>

\* Callback that draws the delay from one value too many
Callback_WideDelay ==
  /\ pc = "callback"
  /\ IF ~checkTextMatch(note.noteText, config)
     THEN /\ pc' = "read"
          /\ UNCHANGED <<delay, elapsed>>
     ELSE /\ \E n \in 0..DelaySpan : delay' = n + DelayBase
          /\ elapsed' = 0
          /\ pc' = "sleep"
  /\ UNCHANGED <<config, conn, dialed, sent, written, wire, received, events,
                 calls, stdout, stderr, result>>

\* Callback that uses up the first symbol of the match text at each match
Callback_TrimsMatchText ==
  /\ pc = "callback"
  /\ IF ~checkTextMatch(note.noteText, config)
     THEN /\ pc' = "read"
          /\ UNCHANGED <<config, delay, elapsed>>
     ELSE /\ \E n \in 0..(DelaySpan - 1) : delay' = n + DelayBase
          /\ elapsed' = 0
          /\ pc' = "sleep"
          /\ config' = [config EXCEPT !.MatchText = Tail(@)]
  /\ UNCHANGED <<conn, dialed, sent, written, wire, received, events,
                 calls, stdout, stderr, result>>

\* the callback of runApp up to time.Sleep: match the text, choose the delay
Callback ==
  /\ pc = "callback"
  /\ IF ~checkTextMatch(note.noteText, config)
     THEN /\ pc' = "read"
          /\ UNCHANGED <<delay, elapsed>>
     ELSE /\ \E n \in 0..(DelaySpan - 1) : delay' = n + DelayBase
          /\ elapsed' = 0
          /\ pc' = "sleep"
  /\ UNCHANGED <<config, conn, dialed, sent, written, wire, received, events, calls,
                 stdout, stderr, result>>

\* a second of time.Sleep(delay) passes
Tick ==
  /\ pc = "sleep"
  /\ elapsed < delay
  /\ elapsed' = elapsed + 1
  /\ UNCHANGED <<config, pc, conn, dialed, sent, written, wire, received, events,
                 delay, calls, stdout, stderr, result>>

\* SleepDone that starts createReaction and goes back to the read at once
SleepDone_Detached ==
  /\ pc = "sleep"
  /\ elapsed = delay
  /\ stdout' = Append(stdout, <<"posting", note.noteID, note.noteText,
                                config.Emoji>>)
  /\ calls' = Append(calls, [ frame |-> note.frame,
                              url |-> config.URL,
                              noteID |-> note.noteID,
                              reaction |-> config.Emoji,
                              token |-> config.Token,
                              returned |-> FALSE,
                              resp |-> NoResponse,
                              requests |-> <<>>,
                              err |-> Nil ])
  /\ pc' = "read"
  /\ UNCHANGED <<config, conn, dialed, sent, written, wire, received, events, delay,
                 elapsed, stderr, result>>

\* time.Sleep returns; the callback prints and calls createReaction
SleepDone ==
  /\ pc = "sleep"
  /\ elapsed = delay
  /\ stdout' = Append(stdout, <<"posting", note.noteID, note.noteText,
                                config.Emoji>>)
  /\ calls' = Append(calls, [ frame |-> note.frame,
                              url |-> config.URL,
                              noteID |-> note.noteID,
                              reaction |-> config.Emoji,
                              token |-> config.Token,
                              returned |-> FALSE,
                              resp |-> NoResponse,
                              requests |-> <<>>,
                              err |-> Nil ])
  /\ pc' = "react"
  /\ UNCHANGED <<config, conn, dialed, sent, written, wire, received, events, delay,
                 elapsed, stderr, result>>

\* ReactReturn that tries again after a failure
ReactReturn_Retry ==
  /\ pc = "react"
  /\ \E http \in HttpOutcomes :
       LET c == calls[Len(calls)]
           r == createReaction(c.url, c.noteID, c.reaction, c.token, http)
       IN  /\ calls' = [calls EXCEPT ![Len(calls)] =
                          [c EXCEPT !.returned = TRUE,
                                    !.resp = http,
                                    !.requests = r.requests,
                                    !.err = r.err]]
           /\ stderr' = IF r.err # Nil
                        THEN Append(stderr, [ kind |-> "reaction",
                                              raw |-> "",
                                              err |-> r.err ])
                        ELSE stderr
           /\ pc' = IF r.err # Nil /\ Len(calls) < MaxFrames + 1
                    THEN "sleep" ELSE "read"
  /\ UNCHANGED <<config, conn, dialed, sent, written, wire, received, events,
                 delay, elapsed, stdout, result>>

\* ReactReturn that returns the error of createReaction from the loop
ReactReturn_Propagates ==
  /\ pc = "react"
  /\ \E http \in HttpOutcomes :
       LET c == calls[Len(calls)]
           r == createReaction(c.url, c.noteID, c.reaction, c.token, http)
       IN  /\ calls' = [calls EXCEPT ![Len(calls)] =
                          [c EXCEPT !.returned = TRUE,
                                    !.resp = http,
                                    !.requests = r.requests,
                                    !.err = r.err]]
           /\ IF r.err # Nil
              THEN /\ conn' = "closed"
                   /\ StreamFailed(r.err)
              ELSE /\ pc' = "read"
                   /\ UNCHANGED <<conn, result>>
  /\ delay' = 0
  /\ elapsed' = 0
  /\ UNCHANGED <<config, dialed, sent, written, wire, received, events,
                 stdout, stderr>>

\* createReaction returns; the callback logs a failure and returns to the
\* loop, and its local delay is gone
ReactReturn ==
  /\ pc = "react"
  /\ \E http \in HttpOutcomes :
       LET c == calls[Len(calls)]
           r == createReaction(c.url, c.noteID, c.reaction, c.token, http)
       IN  /\ calls' = [calls EXCEPT ![Len(calls)] =
                          [c EXCEPT !.returned = TRUE,
                                    !.resp = http,
                                    !.requests = r.requests,
                                    !.err = r.err]]
           /\ stderr' = IF r.err # Nil
                        THEN Append(stderr, [ kind |-> "reaction",
                                              raw |-> "",
                                              err |-> r.err ])
                        ELSE stderr
  /\ pc' = "read"
  /\ delay' = 0
  /\ elapsed' = 0
  /\ UNCHANGED <<config, conn, dialed, sent, written, wire, received, events,
                 stdout, result>>

\* the streaming server writes a frame
ServerSend ==
  /\ conn = "open"
  /\ Len(written) < MaxFrames
  /\ \E f \in Frames :
       /\ written' = Append(written, f)
       /\ wire' = Append(wire, f)
  /\ UNCHANGED <<config, pc, conn, dialed, sent, received, events, delay,
                 elapsed, calls, stdout, stderr, result>>

Next ==
  \/ Validate
  \/ DialOk
  \/ DialFail
  \/ SubscribeOk
  \/ SubscribeFail
  \/ ReadOk
  \/ ReadFail
  \/ Decode
  \/ Callback
  \/ Tick
  \/ SleepDone
  \/ ReactReturn
  \/ ServerSend

Spec == Init /\ [][Next]_vars

\* the goroutine's own steps are taken, and time passes: what the Go
\* scheduler and the clock guarantee.  The server and the API owe nothing.
FairSpec ==
  /\ Spec
  /\ WF_vars(Decode)
  /\ WF_vars(Callback)
  /\ WF_vars(Tick)
  /\ WF_vars(SleepDone)

---------------------------------------------------------------------------
(* Direct calls: checkTextMatch as TestCheckTextMatch calls it, and
   createReaction as the one-shot runApp of main.go and the tests call it *)

\* the note texts and match texts of a direct call
Texts == SeqsUpTo({"a", "b"}, MaxLen)

\* the modes of a direct call: those of the configuration and two more
\* unknown ones
MatchModes == MatchTypes \cup {"PREFIX", "exact"}

\* the messages and codes of an error body
ErrorTexts == SeqsUpTo({"x", "%", "d"}, MaxMsgLen)

\* bodies that json.Unmarshal refuses: empty, markup, a stray format verb
GarbageBodies == { <<>>, <<"<", "h", ">">>, <<"%", "d">> }

\* the redirects client.Do follows before the answer of a direct call
RedirectHops == SeqsUpTo({302, 307}, MaxHops)

\* the answers to a direct call of createReaction
AllHttpOutcomes ==
  { [ net |-> "fail", hops |-> h, status |-> 0, body |-> [ kind |-> "none" ] ] :
      h \in RedirectHops }
  \cup
  { [ net |-> "ok", hops |-> h, status |-> st, body |-> b ] :
      h \in RedirectHops,
      st \in {200, 201, 204, 400, 500},
      b \in { [ kind |-> "unreadable" ] }
            \cup { [ kind |-> "garbage", raw |-> g ] : g \in GarbageBodies }
            \cup { [ kind |-> "error", message |-> m, code |-> c ] :
                     m \in ErrorTexts, c \in { <<>>, <<"C">>, <<"%", "d">> } } }

\* a test builds a Config and a note text for checkTextMatch
MatchInit ==
  /\ config \in [ URL : {<<>>}, Token : {<<>>}, Emoji : {""},
                  MatchText : Texts, MatchType : MatchModes ]
  /\ pc = "checkTextMatch"
  /\ events \in { <<[ frame |-> 0, noteID |-> "", noteText |-> t ]>> :
                    t \in Texts }
  /\ conn = "none"
  /\ dialed = <<>>
  /\ sent = <<>>
  /\ written = <<>>
  /\ wire = <<>>
  /\ received = <<>>
  /\ delay = 0
  /\ elapsed = 0
  /\ calls = <<>>
  /\ stdout = <<>>
  /\ stderr = <<>>
  /\ result = [ done |-> FALSE, err |-> Nil ]

\* checkTextMatch(tt.noteText, config) returns
MatchCall ==
  /\ pc = "checkTextMatch"
  /\ pc' = "matchReturned"
  /\ result' = [ done |-> TRUE, err |-> Nil,
                 ret |-> checkTextMatch(note.noteText, config) ]
  /\ UNCHANGED <<config, conn, dialed, sent, written, wire, received, events,
                 delay, elapsed, calls, stdout, stderr>>

\* the one-shot runApp is about to call createReaction with a validated
\* configuration
ReactionInit ==
  /\ config \in [ URL : Urls \ {<<>>}, Token : Tokens \ {<<>>},
                  Emoji : {":e:", DefaultEmoji},
                  MatchText : {<<>>}, MatchType : {""} ]
  /\ pc = "createReaction"
  /\ calls = <<[ frame |-> 0,
                 url |-> config.URL,
                 noteID |-> "n1",
                 reaction |-> config.Emoji,
                 token |-> config.Token,
                 returned |-> FALSE,
                 resp |-> NoResponse,
                 requests |-> <<>>,
                 err |-> Nil ]>>
  /\ conn = "none"
  /\ dialed = <<>>
  /\ sent = <<>>
  /\ written = <<>>
  /\ wire = <<>>
  /\ received = <<>>
  /\ events = <<>>
  /\ delay = 0
  /\ elapsed = 0
  /\ stdout = <<>>
  /\ stderr = <<>>
  /\ result = [ done |-> FALSE, err |-> Nil ]

\* createReaction returns to the one-shot runApp, which returns its error or
\* prints the success
CreateReactionCall ==
  /\ pc = "createReaction"
  /\ \E http \in AllHttpOutcomes :
       LET c == calls[Len(calls)]
           r == createReaction(c.url, c.noteID, c.reaction, c.token, http)
       IN  /\ calls' = [calls EXCEPT ![Len(calls)] =
                          [c EXCEPT !.returned = TRUE,
                                    !.resp = http,
                                    !.requests = r.requests,
                                    !.err = r.err]]
           /\ result' = Return(r.err)
           /\ stdout' = IF r.err = Nil
                        THEN Append(stdout, <<"reacted", c.noteID, c.reaction>>)
                        ELSE stdout
  /\ pc' = "reactionReturned"
  /\ UNCHANGED <<config, conn, dialed, sent, written, wire, received, events,
                 delay, elapsed, stderr>>

\* a run of the program, or a direct call
\* base URLs with "http" in them more than once, and with a path
BaseUrls ==
  { <<"h", "t", "t", "p", ":", "/", "/", "h", "t", "t", "p">>,
    <<"h", "t", "t", "p", "s", ":", "/", "/", "m", "/", "h", "t", "t", "p", "s">> }

\* runApp with a complete configuration whose URL is one of BaseUrls
UrlInit ==
  /\ config \in [ URL : BaseUrls, Token : Tokens \ {<<>>}, Emoji : {":e:"},
                  MatchText : {<<"a">>}, MatchType : {"contains"} ]
  /\ pc = "start"
  /\ conn = "none"
  /\ dialed = <<>>
  /\ sent = <<>>
  /\ written = <<>>
  /\ wire = <<>>
  /\ received = <<>>
  /\ events = <<>>
  /\ delay = 0
  /\ elapsed = 0
  /\ calls = <<>>
  /\ stdout = <<>>
  /\ stderr = <<>>
  /\ result = [ done |-> FALSE, err |-> Nil ]

FuncInit == Init \/ MatchInit \/ ReactionInit \/ UrlInit

FuncNext ==
  \/ Next
  \/ MatchCall
  \/ CreateReactionCall

FuncSpec == FuncInit /\ [][FuncNext]_vars

---------------------------------------------------------------------------
(* Vocabulary of the properties *)

\* frame k has gone through the whole body of the loop
Processed(k) ==
  /\ k \in 1..Len(received)
  /\ (k < Len(received) \/ pc \in {"read", "done"})

\* frame k is a channel/note frame
NoteFrame(k) ==
  /\ k \in 1..Len(received)
  /\ received[k].json
  /\ received[k].Type = "channel"
  /\ received[k].BodyType = "note"

\* frame k is a channel/note frame whose text matches the configuration
MatchingFrame(k) ==
  /\ NoteFrame(k)
  /\ checkTextMatch(received[k].Text, config)

\* the invocations of createReaction for frame k
CallsFor(k) == { i \in DOMAIN calls : calls[i].frame = k }

\* the invocations of the callback for frame k
EventsFor(k) == { i \in DOMAIN events : events[i].frame = k }

\* a dispatch is waiting out its delay or performing the HTTP call
DispatchPending == pc \in {"sleep", "react"}

\* the read loop is at one of its own steps: reading, decoding or matching
ReadLoopRuns == pc \in {"read", "decode", "callback"}

---------------------------------------------------------------------------
(* C1 *)

\* C1: in every state where a dispatch is pending (waiting out its delay or
\* performing the HTTP call) the read loop is still able to read and process
\* the next frame.  The code runs the dispatch inside the callback, on the
\* goroutine of the loop: this fails.
C1_DispatchNeverBlocksReadLoop == DispatchPending => ReadLoopRuns

---------------------------------------------------------------------------
(* C2 *)

\* C2: createReaction is never invoked twice for one frame, and for every
\* matching note frame the loop has received it is eventually invoked, and
\* then exactly once, whatever the server and the connection do afterwards.
C2_ExactlyOneCallPerMatch ==
  /\ [](\A k \in 1..MaxFrames : Cardinality(CallsFor(k)) <= 1)
  /\ \A k \in 1..MaxFrames :
       MatchingFrame(k) ~> (Cardinality(CallsFor(k)) = 1)

\* the stream failed after a match, and the match got its one call
C2_Witness ==
  /\ pc = "done"
  /\ \E k \in 1..MaxFrames :
       MatchingFrame(k) /\ Cardinality(CallsFor(k)) = 1

---------------------------------------------------------------------------
(* C3 *)

\* every call belongs to one received channel/note frame whose text matches,
\* carries the ID of that frame and the configured reaction, and no other
\* call belongs to the same frame; a note that does not match has no call
\* and no dispatch
C3_CallsAreForMatches ==
  /\ \A i \in DOMAIN calls :
       /\ MatchingFrame(calls[i].frame)
       /\ calls[i].noteID = received[calls[i].frame].ID
       /\ calls[i].reaction = config.Emoji
       /\ CallsFor(calls[i].frame) = {i}
  /\ \A k \in 1..Len(received) :
       (NoteFrame(k) /\ ~MatchingFrame(k)) =>
         /\ CallsFor(k) = {}
         /\ (k = Len(received) => ~DispatchPending)

\* the callback of a note that does not match returns to the read
C3_NoMatchReturnsToRead ==
  (pc = "callback" /\ ~MatchingFrame(Len(received)) /\ pc' # pc) =>
    (pc' = "read" /\ calls' = calls /\ ~result'.done)

\* C3: every Reaction Client call is caused by exactly one received
\* channel/note event whose text matches the configured text and mode, and
\* carries that event's post ID and the configured reaction; a note event
\* that does not match triggers no call and the loop goes on reading.
C3_CallsOnlyForMatchedEvents ==
  []C3_CallsAreForMatches /\ [][C3_NoMatchReturnsToRead]_vars

\* a call was made for a match, and a note that does not match was skipped
C3_Witness ==
  /\ calls # <<>>
  /\ \E k \in 1..Len(received) :
       NoteFrame(k) /\ ~MatchingFrame(k) /\ Processed(k)

---------------------------------------------------------------------------
(* C4 *)

\* the log entries of the parse failure of frame k
ParseLogsFor(k) ==
  { i \in DOMAIN stderr : stderr[i].kind = "parse" /\ stderr[i].frame = k }

\* a processed frame that is not valid JSON has no event and one log entry
\* with its raw payload; a processed channel/note frame has its one event,
\* whatever came before it
C4_BadFrameLoggedAndSkipped ==
  \A k \in 1..Len(received) :
    Processed(k) =>
      IF ~received[k].json
      THEN /\ EventsFor(k) = {}
           /\ Cardinality(ParseLogsFor(k)) = 1
           /\ \A i \in ParseLogsFor(k) : stderr[i].raw = received[k].raw
      ELSE /\ ParseLogsFor(k) = {}
           /\ NoteFrame(k) =>
                /\ Cardinality(EventsFor(k)) = 1
                /\ \A i \in EventsFor(k) :
                     /\ events[i].noteID = received[k].ID
                     /\ events[i].noteText = received[k].Text

\* the step that decodes a bad frame goes back to the read and returns nothing
C4_BadFrameKeepsLoop ==
  (pc = "decode" /\ ~message.json /\ pc' # pc) =>
    (pc' = "read" /\ ~result'.done /\ conn' = "open")

\* C4: a frame that is not valid JSON for the envelope yields no event,
\* produces one log entry containing the raw payload, and does not abort
\* the read loop: a valid channel/note frame received afterwards on the same
\* connection still yields its event.
C4_InvalidFrameIsLoggedNotFatal ==
  []C4_BadFrameLoggedAndSkipped /\ [][C4_BadFrameKeepsLoop]_vars

\* a bad frame, then a note frame that reached the callback
C4_Witness ==
  /\ Len(received) = 2
  /\ ~received[1].json
  /\ NoteFrame(2)
  /\ EventsFor(2) # {}
  /\ Len(stderr) >= 1

---------------------------------------------------------------------------
(* C5 *)

\* the error runApp returns after a read failure
ReadError == <<"stream: ", "WebSocket read failed: ", "read error">>

\* a failing ReadMessage ends the loop and runApp with the read error
C5_ReadFailReturns ==
  ReadFail => (pc' = "done" /\ result' = Return(ReadError) /\ result'.err # Nil)

\* after the return nothing is read, handed to the callback, dialed or sent
C5_NothingAfterReturn ==
  pc = "done" =>
    /\ pc' = "done"
    /\ UNCHANGED <<received, events, dialed, sent, calls, result>>

\* C5: a read failure terminates the read loop with a non-nil error that is
\* returned from the loop and then from runApp; after it no frame is read,
\* no callback is invoked and no connection attempt is made.
C5_ReadFailureIsFinal ==
  /\ [][C5_ReadFailReturns]_vars
  /\ [][C5_NothingAfterReturn]_vars
  /\ [](result.done => (pc = "done" /\ Len(dialed) <= 1))

\* the read failed after a frame had been processed
C5_Witness ==
  /\ pc = "done"
  /\ result = Return(ReadError)
  /\ received # <<>>
  /\ Len(dialed) = 1

---------------------------------------------------------------------------
(* C6 *)

\* a connection attempt was made and gave no connection
DialFailed == dialed # <<>> /\ conn = "none"

\* C6: if the connection attempt fails, streamNotes returns a connect error
\* (marked as a WebSocket connection failure) without sending a subscribe
\* message, without reading a frame, without invoking the callback, and
\* without connecting again.
C6_DialFailureReturnsAtOnce ==
  DialFailed =>
    /\ pc = "done"
    /\ result.done
    /\ Len(result.err) >= 2
    /\ result.err[2] = "WebSocket dial failed: "
    /\ sent = <<>>
    /\ received = <<>>
    /\ events = <<>>
    /\ calls = <<>>
    /\ Len(dialed) = 1

\* the dial has failed
C6_Witness == DialFailed /\ pc = "done"

---------------------------------------------------------------------------
(* C7 *)

\* C7: after a successful connect exactly one subscribe message (type
\* connect, channel homeTimeline, a subscription id, the token in the body)
\* is sent, and before any frame is read; if sending it fails the loop
\* ends with an error returned and no frame is ever read.
C7_SubscribeOnceBeforeReading ==
  /\ Len(sent) <= 1
  /\ \A i \in DOMAIN sent :
       /\ sent[i].msg.type = "connect"
       /\ sent[i].msg.body.channel = "homeTimeline"
       /\ sent[i].msg.body.id # ""
       /\ sent[i].msg.body.i = config.Token
       /\ conn # "none"
  /\ (conn # "none" /\ pc # "subscribe") => Len(sent) = 1
  /\ received # <<>> => (Len(sent) = 1 /\ sent[1].ok)
  /\ (sent # <<>> /\ ~sent[1].ok) =>
       /\ pc = "done"
       /\ result.done
       /\ result.err # Nil
       /\ received = <<>>
       /\ events = <<>>

\* the subscribe message failed to go out
C7_Witness ==
  /\ sent # <<>>
  /\ ~sent[1].ok
  /\ written # <<>>

---------------------------------------------------------------------------
(* C8 *)

\* the error of no call is what runApp returns, and a processed matching
\* frame has its call whatever the calls before it returned
C8_FailuresStayInTheCallback ==
  /\ \A i \in DOMAIN calls :
       calls[i].err # Nil => ~HasSuffix(result.err, calls[i].err)
  /\ \A k \in 1..Len(received) :
       (Processed(k) /\ MatchingFrame(k)) => Cardinality(CallsFor(k)) = 1

\* the step on which createReaction returns goes back to the read
C8_ReturnGoesBackToRead ==
  (pc = "react" /\ pc' # pc) => (pc' = "read" /\ ~result'.done /\ conn' = conn)

\* C8: a failed reaction dispatch never terminates or fails the read loop
\* and is never the loop's result: after a failed dispatch, frames are
\* still read and matching events still get their own dispatch.
C8_DispatchFailureIsIsolated ==
  []C8_FailuresStayInTheCallback /\ [][C8_ReturnGoesBackToRead]_vars

\* a call failed, and a later frame got its own call
C8_Witness ==
  /\ Len(calls) = 2
  /\ calls[1].err # Nil
  /\ calls[2].frame > calls[1].frame

---------------------------------------------------------------------------
(* C9 *)

\* the frames of the events, in the order of the invocations
EventFrames == [ i \in DOMAIN events |-> events[i].frame ]

\* the frames read are the frames written, in the order written; every frame
\* before the newest one is processed; the events are the channel/note
\* frames among the decoded ones, in the order of arrival
C9_InOrder ==
  /\ Len(received) <= Len(written)
  /\ received = SubSeq(written, 1, Len(received))
  /\ wire = SubSeq(written, Len(received) + 1, Len(written))
  /\ \A k \in 1..Len(received) : k < Len(received) => Processed(k)
  /\ \A i \in DOMAIN events :
       /\ NoteFrame(events[i].frame)
       /\ events[i].noteID = received[events[i].frame].ID
       /\ events[i].noteText = received[events[i].frame].Text
       /\ \A j \in DOMAIN events : i < j => events[i].frame < events[j].frame
  /\ \A k \in 1..Len(received) :
       (NoteFrame(k) /\ (Processed(k) \/ pc # "decode")) => EventsFor(k) # {}

\* a frame is read only when the frame before it is decoded and matched
C9_ReadOnlyBetweenFrames ==
  received' # received =>
    /\ pc = "read"
    /\ Len(received') = Len(received) + 1
    /\ received'[Len(received')] = Head(wire)

\* C9: frames are processed one at a time and in the order received from
\* the connection: the decode and the match of frame k are complete before
\* frame k+1 is read, and the events handed to the callback are the
\* channel/note frames received, in the order of arrival.
C9_FramesProcessedInOrder ==
  []C9_InOrder /\ [][C9_ReadOnlyBetweenFrames]_vars

\* two different note frames were handed to the callback
C9_Witness ==
  /\ Len(events) = 2
  /\ events[1].noteID # events[2].noteID
  /\ Len(received) = 2

---------------------------------------------------------------------------
(* C11 *)

\* the matching frames whose dispatch has reached createReaction
DispatchedFrames ==
  { k \in 1..Len(received) :
      MatchingFrame(k) /\ (Processed(k) \/ pc = "react") }

\* C11: the pipeline never de-duplicates: N qualifying note events received,
\* also with the same text or the same post ID, give N calls of
\* createReaction, one per event.
C11_NoDeduplication ==
  (pc \notin {"checkTextMatch", "matchReturned", "createReaction",
              "reactionReturned"}) =>
    /\ Len(calls) = Cardinality(DispatchedFrames)
    /\ \A k \in DispatchedFrames : Cardinality(CallsFor(k)) = 1

\* the same note was received twice and got two calls
C11_Witness ==
  /\ Len(received) = 2
  /\ received[1] = received[2]
  /\ Len(calls) = 2
  /\ calls[1].noteID = calls[2].noteID
  /\ calls[1].frame # calls[2].frame

---------------------------------------------------------------------------
(* C12 *)

\* a required field of the configuration is empty
ConfigIncomplete ==
  config.URL = <<>> \/ config.Token = <<>> \/ config.MatchText = <<>>

\* the error of the first empty required field
ConfigError ==
  IF config.URL = <<>> THEN <<"no URL">>
  ELSE IF config.Token = <<>> THEN <<"no token">>
  ELSE <<"no match_text">>

\* C12: the configuration is validated before any connection attempt: if the
\* URL, the token or the match text is empty, runApp returns the error of
\* that field, and no connection is opened, no subscribe message is sent and
\* createReaction is not called.
C12_ValidationBeforeConnect ==
  (ConfigIncomplete /\ pc \in {"start", "dial", "subscribe", "read", "decode",
                               "callback", "sleep", "react", "done"}) =>
    /\ pc \in {"start", "done"}
    /\ pc = "done" => result = [ done |-> TRUE, err |-> ConfigError ]
    /\ pc = "start" => ~result.done
    /\ dialed = <<>>
    /\ conn = "none"
    /\ sent = <<>>
    /\ received = <<>>
    /\ calls = <<>>

\* runApp has returned because only the match text is missing
C12_Witness ==
  /\ pc = "done"
  /\ config.URL # <<>>
  /\ config.Token # <<>>
  /\ config.MatchText = <<>>
  /\ result.err = <<"no match_text">>

---------------------------------------------------------------------------
(* C13 *)

\* a parsed frame that has been decoded has an event exactly if it is a
\* channel/note frame; the event carries the inner id and text; no parsed
\* frame is logged as an error
C13_EventIffChannelNote ==
  \A k \in 1..Len(received) :
    (received[k].json /\ (Processed(k) \/ pc # "decode")) =>
      /\ (EventsFor(k) # {}) <=>
           (received[k].Type = "channel" /\ received[k].BodyType = "note")
      /\ Cardinality(EventsFor(k)) <= 1
      /\ \A i \in EventsFor(k) :
           /\ events[i].noteID = received[k].ID
           /\ events[i].noteText = received[k].Text
      /\ ParseLogsFor(k) = {}

\* decoding a parsed frame that is no channel/note frame goes back to the read
C13_OtherFrameKeepsLoop ==
  (/\ pc = "decode"
   /\ message.json
   /\ ~(message.Type = "channel" /\ message.BodyType = "note")
   /\ pc' # pc) =>
    (pc' = "read" /\ ~result'.done /\ conn' = "open" /\ stderr' = stderr
     /\ events' = events)

\* C13: a parsed frame yields an event if and only if its outer type is
\* "channel" and its inner type is "note", and the event carries the inner
\* id and text; any other parsed frame yields no event, is no error, and
\* leaves the loop reading.
C13_OnlyChannelNoteYieldsEvent ==
  []C13_EventIffChannelNote /\ [][C13_OtherFrameKeepsLoop]_vars

\* a channel frame that is no note was skipped, and a note gave its event
C13_Witness ==
  /\ Len(received) = 2
  /\ received[1].json
  /\ received[1].Type = "channel"
  /\ received[1].BodyType # "note"
  /\ EventsFor(1) = {}
  /\ EventsFor(2) # {}

---------------------------------------------------------------------------
(* C14 *)

\* the calls of createReaction that got an HTTP response
Answered == { i \in DOMAIN calls : calls[i].returned /\ calls[i].resp.net = "ok"
                                   /\ calls[i].requests # <<>> }

\* C14: createReaction returns success if and only if the HTTP status of the
\* response is 204; every other status, 200 and the other 2xx included, is
\* a failure.
C14_SuccessIffNoContent ==
  \A i \in Answered : (calls[i].err = <<>>) <=> (calls[i].resp.status = 204)

\* a direct call answered 200 or 201 has failed, and one answered 204 has not
C14_Witness ==
  /\ pc = "reactionReturned"
  /\ 1 \in Answered
  /\ calls[1].resp.status \in {200, 201}
  /\ calls[1].err # <<>>

---------------------------------------------------------------------------
(* C15 *)

\* C15 as stated: each invocation of createReaction performs exactly one
\* outbound HTTP request.
C15_ExactlyOneRequestPerCall ==
  \A i \in DOMAIN calls : calls[i].returned => Len(calls[i].requests) = 1

\* the requests of a returned call: none when the request cannot be built,
\* else the one of client.Do and one per redirect that it followed, whether
\* the call failed or not
C15_OneDoPerCall ==
  \A i \in DOMAIN calls :
    calls[i].returned =>
      /\ Len(calls[i].requests) =
           IF \E j \in DOMAIN calls[i].url : calls[i].url[j] = " "
           THEN 0
           ELSE 1 + Len(calls[i].resp.hops)
      /\ calls[i].requests # <<>> =>
           /\ calls[i].requests[1].method = "POST"
           /\ calls[i].requests[1].body =
                [ noteId |-> calls[i].noteID, reaction |-> calls[i].reaction ]
      /\ calls[i].resp.hops = <<>> => Len(calls[i].requests) <= 1

\* no frame has two calls, and a call that has returned is not touched again
C15_NoSecondCall ==
  /\ \A k \in 1..Len(received) : Cardinality(CallsFor(k)) <= 1
  /\ Len(calls') >= Len(calls)
  /\ \A i \in DOMAIN calls : calls[i].returned => calls'[i] = calls[i]

\* C15, amended: an invocation of createReaction calls client.Do once, or
\* not at all when the request cannot be built, and never sends the request
\* again after a failure (the only further requests are the redirects the
\* HTTP client follows); the pipeline never calls createReaction again for
\* an event whose call failed.
C15_NoRetry == []C15_OneDoPerCall /\ [][C15_NoSecondCall]_vars

\* the call for the first frame failed after its one request, and the loop
\* has read the second frame without a second call for the first
C15_Witness ==
  /\ Len(received) = 2
  /\ Len(calls) = 1
  /\ calls[1].frame = 1
  /\ calls[1].returned
  /\ calls[1].err # <<>>
  /\ Len(calls[1].requests) = 1
  /\ Processed(2)

---------------------------------------------------------------------------
(* C16 *)

\* while a dispatch is pending its delay is one of 5, 6, 7 and 8 seconds, and
\* createReaction is not reached before the delay has elapsed
C16_DelayInRange ==
  /\ pc \in {"sleep", "react"} => (delay \in 5..8 /\ elapsed <= delay)
  /\ pc = "react" => elapsed = delay

\* a call is added only by the callback whose sleep is over
C16_CallAfterSleep ==
  (calls' # calls /\ Len(calls') > Len(calls)) =>
    (pc = "sleep" /\ elapsed = delay /\ delay \in 5..8)

\* C16: for every matched event createReaction is called only after a delay
\* has elapsed, and the delay is always in the closed range of 5 to 8
\* seconds.
C16_DelayBeforeCall == []C16_DelayInRange /\ [][C16_CallAfterSleep]_vars

\* the longest delay has elapsed and createReaction runs
C16_Witness ==
  /\ pc = "react"
  /\ delay = 8
  /\ elapsed = 8
  /\ ~calls[Len(calls)].returned

---------------------------------------------------------------------------
(* C17 *)

\* t starts with m, t ends with m, m occurs in t: symbol by symbol
StartsWith(t, m) ==
  Len(m) <= Len(t) /\ \A i \in 1..Len(m) : t[i] = m[i]

EndsWith(t, m) ==
  Len(m) <= Len(t) /\ \A i \in 1..Len(m) : t[Len(t) - Len(m) + i] = m[i]

OccursIn(t, m) ==
  \E off \in 0..Len(t) :
    off + Len(m) <= Len(t) /\ \A i \in 1..Len(m) : t[off + i] = m[i]

\* C17: in mode prefix checkTextMatch returns true exactly if the post text
\* starts with the match text, in mode suffix exactly if it ends with it,
\* and in mode contains or with an empty mode exactly if the match text
\* occurs in it.
C17_ModesDecideTheMatch ==
  pc = "matchReturned" =>
    /\ config.MatchType = "prefix" =>
         (result.ret <=> StartsWith(note.noteText, config.MatchText))
    /\ config.MatchType = "suffix" =>
         (result.ret <=> EndsWith(note.noteText, config.MatchText))
    /\ config.MatchType \in {"contains", ""} =>
         (result.ret <=> OccursIn(note.noteText, config.MatchText))

\* "ab" ends the text "aab" and does not start it: suffix has returned true
C17_Witness ==
  /\ pc = "matchReturned"
  /\ config.MatchType = "suffix"
  /\ config.MatchText = <<"a", "b">>
  /\ note.noteText = <<"a", "a", "b">>
  /\ result.ret

---------------------------------------------------------------------------
(* C18 *)

\* the modes checkTextMatch knows
KnownModes == {"prefix", "suffix", "contains", ""}

\* C18: under a non-empty mode other than prefix, suffix and contains,
\* checkTextMatch returns false whatever the texts are (there is no
\* fallback), so no event ever triggers a reaction under such a mode.
C18_UnknownModeNeverMatches ==
  config.MatchType \notin KnownModes =>
    /\ pc = "matchReturned" => ~result.ret
    /\ calls = <<>>
    /\ pc \notin {"sleep", "react"}

\* under "PREFIX" a text that starts with the match text was refused
C18_Witness ==
  /\ pc = "matchReturned"
  /\ config.MatchType = "PREFIX"
  /\ config.MatchText = <<"a">>
  /\ note.noteText = <<"a", "b">>
  /\ ~result.ret

\* under "bogus" the pipeline has taken a note with the match text in it
\* and has gone on reading without a call
C18_PipelineWitness ==
  /\ config.MatchType = "bogus"
  /\ Len(received) = 2
  /\ Processed(1)
  /\ NoteFrame(1)
  /\ Contains(received[1].Text, config.MatchText)
  /\ calls = <<>>

---------------------------------------------------------------------------
(* C19 *)

\* C19: with an empty match text checkTextMatch returns true in the modes
\* contains, "", prefix and suffix, for every post text, the empty one
\* included.
C19_EmptyMatchTextMatchesAll ==
  (pc = "matchReturned" /\ config.MatchText = <<>>
   /\ config.MatchType \in KnownModes) => result.ret

\* the empty match text was found in the empty post text
C19_Witness ==
  /\ pc = "matchReturned"
  /\ config.MatchText = <<>>
  /\ config.MatchType = "contains"
  /\ note.noteText = <<>>
  /\ result.ret

---------------------------------------------------------------------------
(* C20 *)

\* the calls answered with a status other than 204 and an error object
ApiErrors ==
  { i \in DOMAIN calls :
      /\ calls[i].returned
      /\ calls[i].requests # <<>>
      /\ calls[i].resp.net = "ok"
      /\ calls[i].resp.status # 204
      /\ calls[i].resp.body.kind = "error" }

\* C20: when the status is not 204 and the body is an error object, the text
\* of the error is exactly "API error: " and the message, then " (Code: ",
\* the code and ")" if and only if the code is not empty, then " (Status: ",
\* the status and ")", for every message, code and status.
C20_ExactApiErrorText ==
  \A i \in ApiErrors :
    LET body == calls[i].resp.body IN
    calls[i].err =
      <<"A", "P", "I", " ", "e", "r", "r", "o", "r", ":", " ">>
      \o body.message
      \o (IF body.code # <<>>
          THEN <<" ", "(", "C", "o", "d", "e", ":", " ">> \o body.code \o <<")">>
          ELSE <<>>)
      \o <<" ", "(", "S", "t", "a", "t", "u", "s", ":", " ">>
      \o Itoa(calls[i].resp.status) \o <<")">>

---------------------------------------------------------------------------
(* C21 *)

\* the calls answered with a status other than 204 and a body that the JSON
\* decoder refuses
UnparsedErrors ==
  { i \in DOMAIN calls :
      /\ calls[i].returned
      /\ calls[i].requests # <<>>
      /\ calls[i].resp.net = "ok"
      /\ calls[i].resp.status # 204
      /\ calls[i].resp.body.kind = "garbage" }

\* err begins with the text "API error: "
ApiErrorForm(err) ==
  /\ Len(err) >= 11
  /\ SubSeq(err, 1, 11) =
       <<"A", "P", "I", " ", "e", "r", "r", "o", "r", ":", " ">>

\* C21: when the status is not 204 and the body cannot be parsed as the
\* error object, createReaction still fails, and the failure carries the
\* status code, the parse error and the raw body, not the "API error" form.
C21_UnparsedBodyKeepsRawBody ==
  \A i \in UnparsedErrors :
    LET resp == calls[i].resp IN
    /\ calls[i].err # <<>>
    /\ ~ApiErrorForm(calls[i].err)
    /\ calls[i].err =
         <<"unexpected status code: ">> \o Itoa(resp.status)
         \o <<", failed to unmarshal error response: ",
              IF resp.body.raw = <<>>
              THEN "unexpected end of JSON input"
              ELSE "invalid character looking for beginning of value",
              ", body: ">>
         \o resp.body.raw

\* a direct call answered 500 with the body "%d" has failed with that body
\* at the end of its error
C21_Witness ==
  /\ pc = "reactionReturned"
  /\ 1 \in UnparsedErrors
  /\ calls[1].resp.status = 500
  /\ calls[1].resp.body.raw = <<"%", "d">>
  /\ SubSeq(calls[1].err, Len(calls[1].err) - 1, Len(calls[1].err))
       = <<"%", "d">>

---------------------------------------------------------------------------
(* C22 *)

\* the returned calls whose request could not be built, and those whose
\* request got no answer
BuildFailures ==
  { i \in DOMAIN calls :
      calls[i].returned /\ \E j \in DOMAIN calls[i].url : calls[i].url[j] = " " }

NetworkFailures ==
  { i \in DOMAIN calls :
      calls[i].returned /\ i \notin BuildFailures /\ calls[i].resp.net = "fail" }

\* the leading texts of the errors below the level of the API
TransportTexts == { "failed to create request: ", "failed to send request: " }

\* C22: a failure to build the request or to reach the server gives an error
\* that can be told from a rejection by the API: it is never in the "API
\* error" form (and no rejection has its leading text), and when the request
\* cannot be built no HTTP request is sent at all.
C22_TransportErrorsAreDistinct ==
  \A i \in DOMAIN calls :
    calls[i].returned =>
      /\ i \in BuildFailures =>
           /\ calls[i].requests = <<>>
           /\ calls[i].err # <<>>
           /\ Head(calls[i].err) = "failed to create request: "
      /\ i \in NetworkFailures =>
           /\ calls[i].err # <<>>
           /\ Head(calls[i].err) = "failed to send request: "
      /\ i \in BuildFailures \cup NetworkFailures => ~ApiErrorForm(calls[i].err)
      /\ (i \notin BuildFailures \cup NetworkFailures /\ calls[i].err # <<>>) =>
           Head(calls[i].err) \notin TransportTexts

\* a direct call with a URL that does not parse has failed without a request
C22_Witness ==
  /\ pc = "reactionReturned"
  /\ 1 \in BuildFailures
  /\ calls[1].requests = <<>>
  /\ Head(calls[1].err) = "failed to create request: "

\* a direct call whose request got no answer has failed with its own text
C22_NetworkWitness ==
  /\ pc = "reactionReturned"
  /\ 1 \in NetworkFailures
  /\ calls[1].requests # <<>>
  /\ Head(calls[1].err) = "failed to send request: "

---------------------------------------------------------------------------
(* C23 *)

\* every reaction of a call, in its arguments and in the body of its request,
\* is the emoji of the configuration, which is not empty once validated
C23_ReactionIsConfigEmoji ==
  /\ pc \in {"dial", "subscribe", "read", "decode", "callback", "sleep",
             "react"} => config.Emoji # ""
  /\ \A i \in DOMAIN calls :
       /\ calls[i].reaction = config.Emoji
       /\ calls[i].reaction # ""
       /\ \A j \in DOMAIN calls[i].requests :
            calls[i].requests[j].method = "POST" =>
              calls[i].requests[j].body.reaction = config.Emoji

\* an empty emoji only ever becomes the fallback, and one that is set stays
C23_EmojiOnlyDefaulted ==
  IF config.Emoji = ""
  THEN config'.Emoji \in {"", DefaultEmoji}
  ELSE config'.Emoji = config.Emoji

\* C23: if the configured reaction symbol is empty, every reaction sent uses
\* the fallback; if it is set, every reaction sent uses exactly the
\* configured symbol.
C23_EmojiDefault == []C23_ReactionIsConfigEmoji /\ [][C23_EmojiOnlyDefaulted]_vars

\* a reaction with the fallback was sent and accepted
C23_Witness ==
  /\ Len(calls) = 1
  /\ calls[1].returned
  /\ calls[1].err = <<>>
  /\ calls[1].reaction = DefaultEmoji
  /\ calls[1].requests[1].body.reaction = DefaultEmoji

\* a reaction with the configured symbol was sent
C23_ConfiguredWitness ==
  /\ Len(calls) = 1
  /\ calls[1].returned
  /\ calls[1].requests[1].body.reaction = ":e:"

---------------------------------------------------------------------------
(* C24 *)

\* the base URL begins with http:// or https://
HttpScheme(url) ==
  \/ Len(url) >= 7 /\ SubSeq(url, 1, 7) = <<"h", "t", "t", "p", ":", "/", "/">>
  \/ Len(url) >= 8
     /\ SubSeq(url, 1, 8) = <<"h", "t", "t", "p", "s", ":", "/", "/">>

\* the base URL with ws in the place of its first four symbols, then the path
\* and the token
StreamUrl(url, token) ==
  <<"w", "s">> \o SubSeq(url, 5, Len(url)) \o <<"/streaming?i=">> \o token

\* C24: for every base URL with the scheme http or https, the URL of the
\* stream connection is the base URL with only the scheme rewritten (http to
\* ws, https to wss), followed by /streaming and the token as the query
\* parameter i; the rest of the base URL is unchanged.
C24_StreamUrlRewritesOnlyScheme ==
  (HttpScheme(config.URL)
   /\ pc \in {"dial", "subscribe", "read", "decode", "callback", "sleep",
              "react", "done"}) =>
    /\ \A i \in DOMAIN dialed : dialed[i] = StreamUrl(config.URL, config.Token)
    /\ \A i \in DOMAIN stdout :
         stdout[i][1] = "connecting" =>
           stdout[i][2] = StreamUrl(config.URL, config.Token)
    /\ pc # "done" =>
         \E i \in DOMAIN stdout : stdout[i][1] = "connecting"

\* the stream of https://m/https is dialed at wss://m/https/streaming?i=tok
C24_Witness ==
  /\ conn = "open"
  /\ config.URL =
       <<"h", "t", "t", "p", "s", ":", "/", "/", "m", "/", "h", "t", "t", "p", "s">>
  /\ dialed =
       << <<"w", "s", "s", ":", "/", "/", "m", "/", "h", "t", "t", "p", "s",
            "/streaming?i=", "tok">> >>

---------------------------------------------------------------------------
(* C25 *)

\* the dispatches of the pipeline that have failed
FailedDispatches ==
  { i \in DOMAIN calls :
      calls[i].frame >= 1 /\ calls[i].returned /\ calls[i].err # <<>> }

\* what a line of stderr prints: its error and the raw text after it
Printed(entry) == {entry.raw} \cup { entry.err[k] : k \in DOMAIN entry.err }

\* C25: every failed reaction dispatch produces a log entry on the error
\* sink, and that entry contains both the post ID of the matched post and
\* the underlying error.
C25_FailureLogHasPostIdAndError ==
  \A i \in FailedDispatches :
    \E j \in DOMAIN stderr :
      /\ stderr[j].kind = "reaction"
      /\ stderr[j].err = calls[i].err
      /\ calls[i].noteID \in Printed(stderr[j])

---------------------------------------------------------------------------
(* C26 *)

\* the state of the ingestion loop at a position of the program: before
\* Dial, in Dial, connected and sending the subscribe message, in the read
\* loop (the callback included), returned
LoopState(p) ==
  CASE p = "start" -> "Disconnected"
    [] p = "dial" -> "Connecting"
    [] p = "subscribe" -> "Subscribed"
    [] p \in {"read", "decode", "callback", "sleep", "react"} -> "Reading"
    [] p = "done" -> "Failed"

\* the place of a state of the loop in Disconnected, Connecting, Subscribed,
\* Reading, Failed
Rank(state) ==
  CASE state = "Disconnected" -> 0
    [] state = "Connecting" -> 1
    [] state = "Subscribed" -> 2
    [] state = "Reading" -> 3
    [] state = "Failed" -> 4

\* events exist and the callback runs only in Reading, after the one
\* successful Dial and the one subscribe message; there is one Dial at most
C26_CallbackOnlyWhileReading ==
  /\ Len(dialed) <= 1
  /\ (pc \in {"callback", "sleep", "react"}) =>
       /\ LoopState(pc) = "Reading"
       /\ conn = "open"
       /\ Len(dialed) = 1
       /\ sent = <<[ msg |-> ConnectMsg(config.Token), ok |-> TRUE ]>>
  /\ (events # <<>> \/ calls # <<>>) =>
       /\ LoopState(pc) \in {"Reading", "Failed"}
       /\ Len(dialed) = 1
       /\ sent = <<[ msg |-> ConnectMsg(config.Token), ok |-> TRUE ]>>

\* the state never moves back, Failed is left by no step, and an event is
\* handed to the callback only by the loop in Reading
C26_OnlyForward ==
  /\ Rank(LoopState(pc')) >= Rank(LoopState(pc))
  /\ LoopState(pc) = "Failed" =>
       (LoopState(pc') = "Failed" /\ dialed' = dialed /\ sent' = sent
        /\ events' = events /\ calls' = calls /\ result' = result)
  /\ events' # events => (LoopState(pc) = "Reading" /\ LoopState(pc') = "Reading")
  /\ dialed' # dialed => LoopState(pc) = "Connecting"

\* C26: the state of the ingestion loop only moves forward along
\* Disconnected, Connecting, Subscribed, Reading, Failed: the callback is
\* invoked only in Reading (after a successful connect and a successful
\* subscribe send), Failed is absorbing, and at most one connection attempt
\* is made per run.
C26_LoopStatesOnlyForward ==
  []C26_CallbackOnlyWhileReading /\ [][C26_OnlyForward]_vars

\* the loop went through every state: it has dialed once, subscribed, handed
\* an event to the callback and failed
C26_Witness ==
  /\ LoopState(pc) = "Failed"
  /\ Len(dialed) = 1
  /\ sent # <<>>
  /\ events # <<>>
  /\ calls # <<>>

---------------------------------------------------------------------------
(* C27 *)

\* no step changes the URL, the token, the match text or the match mode, and
\* the emoji changes only in the validation, where an empty one gets the
\* fallback
C27_ConfigUnchanged ==
  /\ config'.URL = config.URL
  /\ config'.Token = config.Token
  /\ config'.MatchText = config.MatchText
  /\ config'.MatchType = config.MatchType
  /\ pc # "start" => config' = config
  /\ config'.Emoji # config.Emoji => (pc = "start" /\ config.Emoji = "")

\* C27: once the validation and the default of the reaction symbol have been
\* applied, no step of the pipeline changes the configuration: reading a
\* frame, decoding it, checkTextMatch and a reaction dispatch leave URL,
\* token, reaction symbol, match text and match mode unchanged, so every
\* event is matched against the same match text and mode.
C27_ConfigIsImmutable == [][C27_ConfigUnchanged]_vars

\* with a configuration that got the fallback, a dispatch is over and the
\* next frame has been matched too
C27_Witness ==
  /\ config.Emoji = DefaultEmoji
  /\ Len(received) = 2
  /\ Len(calls) = 1
  /\ calls[1].returned
  /\ pc = "sleep"

---------------------------------------------------------------------------
(* C28 *)

\* the leading texts of the three errors of streamNotes
StreamErrors ==
  { "WebSocket dial failed: ", "WebSocket send failed: ",
    "WebSocket read failed: " }

\* C28: the stream loop has no successful end: streamNotes returns only with
\* an error (of the connect, of the subscribe send or of a read), and once
\* the validation has passed runApp never returns nil.
C28_NoSuccessfulReturn ==
  /\ result.done <=> pc = "done"
  /\ result.done => result.err # <<>>
  /\ (result.done /\ stdout # <<>>) =>
       /\ dialed # <<>>
       /\ Len(result.err) >= 3
       /\ result.err[1] = "stream: "
       /\ result.err[2] \in StreamErrors

\* after two frames the stream has ended, and runApp has returned the error
\* of the read
C28_Witness ==
  /\ result.done
  /\ Len(received) = 2
  /\ conn = "closed"
  /\ result.err[2] = "WebSocket read failed: "

---------------------------------------------------------------------------
(* C29 *)

\* the matched events whose call has not returned yet
UnfinishedDispatches ==
  { i \in DOMAIN events :
      /\ checkTextMatch(events[i].noteText, config)
      /\ \A j \in CallsFor(events[i].frame) : ~calls[j].returned }

\* the calls are in the order of their frames, every call but the last has
\* returned and the last is open only while createReaction runs, and at
\* most one matched event waits for the end of its dispatch
C29_CallsInFrameOrder ==
  /\ \A i, j \in DOMAIN calls : i < j => calls[i].frame < calls[j].frame
  /\ \A i \in DOMAIN calls : ~calls[i].returned => (i = Len(calls) /\ pc = "react")
  /\ Cardinality(UnfinishedDispatches) <= 1
  /\ UnfinishedDispatches # {} => pc \in {"callback", "sleep", "react"}

\* a call is made only when every earlier call has returned
C29_CallAfterEarlierReturned ==
  Len(calls') > Len(calls) =>
    /\ \A i \in DOMAIN calls : calls[i].returned
    /\ \A i \in DOMAIN calls : calls[i].frame < calls'[Len(calls')].frame

\* C29: the calls of createReaction are made in the order in which their
\* matched frames were received: of two matched events the call for the
\* first is made, and has returned, before the call for the second is made,
\* and at most one dispatch is pending at any time.
C29_DispatchesInOrder ==
  []C29_CallsInFrameOrder /\ [][C29_CallAfterEarlierReturned]_vars

\* the call for the first frame has returned and the one for the second runs
C29_Witness ==
  /\ Len(calls) = 2
  /\ calls[1].frame = 1
  /\ calls[1].returned
  /\ calls[2].frame = 2
  /\ ~calls[2].returned
  /\ pc = "react"

---------------------------------------------------------------------------
(* C30 *)

\* the configuration with the mode contains in the place of its mode
AsContains(cfg) == [cfg EXCEPT !.MatchType = "contains"]

\* C30: for all post texts and match texts, if checkTextMatch is true in mode
\* prefix or in mode suffix, it is true in mode contains too: the posts
\* reacted to under prefix or suffix are among those reacted to under
\* contains.
C30_PrefixSuffixImplyContains ==
  /\ (pc = "matchReturned" /\ config.MatchType \in {"prefix", "suffix"}
      /\ result.ret) =>
       checkTextMatch(note.noteText, AsContains(config))
  /\ config.MatchType \in {"prefix", "suffix"} =>
       \A i \in DOMAIN calls :
         calls[i].frame >= 1 =>
           checkTextMatch(received[calls[i].frame].Text, AsContains(config))

\* "ab" starts the text "aba": prefix has returned true
C30_Witness ==
  /\ pc = "matchReturned"
  /\ config.MatchType = "prefix"
  /\ config.MatchText = <<"a", "b">>
  /\ note.noteText = <<"a", "b", "a">>
  /\ result.ret

\* under suffix the pipeline has called createReaction for a note
C30_PipelineWitness ==
  /\ config.MatchType = "suffix"
  /\ Len(calls) = 1
  /\ calls[1].frame >= 1
  /\ calls[1].returned

=============================================================================
